---- MODULE Spec2Model ----
(***************************************************************************)
(* A model of rcon-cli: the RCON packet codec (src/src/protocol.rs), the   *)
(* client connection (src/src/client.rs) and the callers that drive it     *)
(* (src/src/main.rs).                                                      *)
(*                                                                         *)
(* A Rust String is modelled by the sequence of its UTF-8 bytes, a byte by *)
(* a number in 0..255, an i32 by the integer it denotes, and a usize by    *)
(* four 16-bit limbs (least significant first), so that the casts and the  *)
(* unchecked additions and subtractions of the code keep their width.      *)
(***************************************************************************)
EXTENDS Integers, Sequences, FiniteSets, TLC

VARIABLES
    overflow_checks, \* build profile: TRUE when integer overflow panics (debug), FALSE when it wraps (release)
    codec_pc,        \* codec harness: which codec function has been applied
    pkt,             \* codec harness: the packet given to to_bytes
    frame,           \* codec harness: the result of to_bytes
    buf,             \* codec harness: the buffer given to from_bytes
    decoded,         \* codec harness: the result of from_bytes
    config,          \* the RconConfig main builds from the command line: [password]
    mode,            \* the subcommand main dispatches on: [command, count, detailed]
    caller_pc,       \* where the caller in main.rs is
    attempt,         \* connect_with_retry: the attempt in progress
    input,           \* run_interactive_mode: the line read last
    conn_count,      \* TCP connections opened so far; they are numbered 1..conn_count
    open,            \* open[c]: the client side still holds the socket of connection c
    server_open,     \* server_open[c]: the server has not closed connection c
    inbound,         \* inbound[c]: bytes the server has sent on c that the client has not read
    chunks_sent,     \* how many times the server has sent bytes
    written,         \* written[c]: the frames the client has written on c, in order
    authed,          \* authed[c]: authenticate has returned Ok on c
    client,          \* the caller's RconClient: [stream, next_request_id, config], or NoClient
    building,        \* the RconClient under construction inside RconClient::connect
    pc,              \* where the client is: idle, authenticate, read_command_response, panicked
    op_request_id,   \* the local request_id of the authenticate or execute_command in progress
    full_response,   \* read_command_response: the text accumulated so far (run-length encoded)
    packets_received,\* read_command_response: the packets read so far
    calls,           \* execute_command calls made so far
    last_op,         \* the operation that returned last: connect or execute_command
    last_result,     \* what it returned
    last_read,       \* the last read_packet call: [size, consumed, result]
    auth,            \* the last authenticate call: [rid, response, result]
    faulted,         \* history: the connections on which an execute_command failed with a network error
    discarded,       \* history: the connections the caller held when a reconnect returned
    fed,             \* reassembly harness: the packets the server has sent, in order
    id_allocs        \* id harness: allocations made so far

codec_vars == <<codec_pc, pkt, frame, buf, decoded>>

caller_vars == <<mode, caller_pc, attempt, input>>

conn_vars == <<config, caller_vars, conn_count, open, server_open, inbound, chunks_sent, written,
               authed, client, building, pc, op_request_id, full_response, packets_received,
               calls, last_op, last_result, last_read, auth, faulted, discarded, fed>>

vars == <<overflow_checks, codec_vars, conn_vars, id_allocs>>

(***************************************************************************)
(* Program constants.                                                      *)
(***************************************************************************)
AUTH == 3
EXECCOMMAND == 2
RESPONSE_VALUE == 0
MAX_REQUEST_PAYLOAD_SIZE == 1446
MAX_RESPONSE_PAYLOAD_SIZE == 4096

MaxI32 == 2147483647
MinI32 == -MaxI32 - 1

(***************************************************************************)
(* Bounds of the model.                                                    *)
(***************************************************************************)
MaxChars == 2       \* short payloads hold at most this many characters
MaxBody == 2        \* raw buffers carry at most this many bytes after the 12-byte header
MaxConns == 2       \* TCP connections opened in one run
MaxCalls == 2       \* execute_command calls in one run
MaxServerChunks == 2 \* sends of the server in one run
MaxAllocs == 12     \* id harness: allocations in one run
MaxFragments == 102 \* reassembly harness: packets the server sends for one command
MaxMixed == 3       \* reassembly harness: length up to which any packet may follow any other

(***************************************************************************)
(* Results: Ok(v), Err(e) with e an RconError, or a panic of the thread.   *)
(***************************************************************************)
Ok(v) == [tag |-> "Ok", val |-> v]
Err(kind, msg) == [tag |-> "Err", val |-> [kind |-> kind, msg |-> msg]]
Panic(msg) == [tag |-> "Panic", val |-> msg]

IsOk(r) == r.tag = "Ok"
IsErr(r) == r.tag = "Err"
IsPanic(r) == r.tag = "Panic"

(***************************************************************************)
(* i32 <-> little-endian bytes (byteorder's write_i32 / read_i32 and       *)
(* i32::from_le_bytes), on two's complement.                               *)
(***************************************************************************)
write_i32(x) ==
    << x % 256, (x \div 256) % 256, (x \div 65536) % 256, (x \div 16777216) % 256 >>

read_i32(b, at) ==
    b[at] + 256 * b[at + 1] + 65536 * b[at + 2]
        + 16777216 * (IF b[at + 3] >= 128 THEN b[at + 3] - 256 ELSE b[at + 3])

(***************************************************************************)
(* usize (64 bits) as four 16-bit limbs, least significant first.          *)
(***************************************************************************)
Limb == 256 * 256

\* `x as usize` for an i32 x: sign extension.
i32_as_usize(x) ==
    LET ext == IF x < 0 THEN Limb - 1 ELSE 0
    IN  << x % Limb, (x \div Limb) % Limb, ext, ext >>

\* `n as usize` for a length n >= 0 that fits 31 bits.
len_as_usize(n) == << n % Limb, n \div Limb, 0, 0 >>

\* u + k for 0 <= k < Limb: [value (wrapped), overflow].
usize_add(u, k) ==
    LET s1 == u[1] + k
        s2 == u[2] + s1 \div Limb
        s3 == u[3] + s2 \div Limb
        s4 == u[4] + s3 \div Limb
    IN  [value |-> << s1 % Limb, s2 % Limb, s3 % Limb, s4 % Limb >>,
         overflow |-> s4 >= Limb]

\* u - k for 0 <= k < Limb: [value (wrapped), overflow].
usize_sub(u, k) ==
    LET d1 == u[1] - k
        d2 == u[2] + d1 \div Limb
        d3 == u[3] + d2 \div Limb
        d4 == u[4] + d3 \div Limb
    IN  [value |-> << d1 % Limb, d2 % Limb, d3 % Limb, d4 % Limb >>,
         overflow |-> d4 < 0]

usize_lt(u, v) ==
    \E i \in 1..4 : u[i] < v[i] /\ \A j \in (i + 1)..4 : u[j] = v[j]

\* A usize above isize::MAX: Vec cannot allocate it ("capacity overflow").
usize_exceeds_isize(u) == u[4] >= Limb \div 2

\* The number a usize below 2^31 denotes.
usize_to_int(u) == u[1] + Limb * u[2]

usize_fits_int(u) == u[3] = 0 /\ u[4] = 0 /\ u[2] < Limb \div 2

(***************************************************************************)
(* String::from_utf8_lossy (core::str::Utf8Chunks): every maximal invalid  *)
(* part of the input becomes U+FFFD (EF BF BD), valid parts are kept.      *)
(***************************************************************************)
REPLACEMENT == << 239, 191, 189 >>

ByteAt(s, i) == IF i <= Len(s) THEN s[i] ELSE 0

IsCont(b) == b >= 128 /\ b <= 191

Utf8Width(b) ==
    IF b < 128 THEN 1
    ELSE IF b >= 194 /\ b <= 223 THEN 2
    ELSE IF b >= 224 /\ b <= 239 THEN 3
    ELSE IF b >= 240 /\ b <= 244 THEN 4
    ELSE 0

SecondOk(lead, b) ==
    IF lead = 224 THEN b >= 160 /\ b <= 191
    ELSE IF lead = 237 THEN b >= 128 /\ b <= 159
    ELSE IF lead = 240 THEN b >= 144 /\ b <= 191
    ELSE IF lead = 244 THEN b >= 128 /\ b <= 143
    ELSE IsCont(b)

\* The chunk that starts at s[i]: its length and whether it is a valid character.
Utf8Chunk(s, i) ==
    LET w == Utf8Width(s[i])
    IN  IF w = 0 THEN [len |-> 1, valid |-> FALSE]
        ELSE IF w = 1 THEN [len |-> 1, valid |-> TRUE]
        ELSE IF ~SecondOk(s[i], ByteAt(s, i + 1)) THEN [len |-> 1, valid |-> FALSE]
        ELSE IF w = 2 THEN [len |-> 2, valid |-> TRUE]
        ELSE IF ~IsCont(ByteAt(s, i + 2)) THEN [len |-> 2, valid |-> FALSE]
        ELSE IF w = 3 THEN [len |-> 3, valid |-> TRUE]
        ELSE IF ~IsCont(ByteAt(s, i + 3)) THEN [len |-> 3, valid |-> FALSE]
        ELSE [len |-> 4, valid |-> TRUE]

RECURSIVE LossyFrom(_, _)
LossyFrom(s, i) ==
    IF i > Len(s) THEN << >>
    ELSE LET c == Utf8Chunk(s, i)
         IN  (IF c.valid THEN SubSeq(s, i, i + c.len - 1) ELSE REPLACEMENT)
                 \o LossyFrom(s, i + c.len)

\* ASCII bytes are characters of their own and end every chunk before them, so
\* the ASCII prefix and suffix are copied and only the span between the first
\* and the last non-ASCII byte is scanned chunk by chunk.
from_utf8_lossy(s) ==
    IF \A i \in 1..Len(s) : s[i] < 128 THEN s
    ELSE LET n == Len(s)
             lo == CHOOSE i \in 1..n : s[i] >= 128 /\ \A j \in 1..(i - 1) : s[j] < 128
             hi == CHOOSE i \in 1..n : s[i] >= 128 /\ \A j \in (i + 1)..n : s[j] < 128
         IN  SubSeq(s, 1, lo - 1) \o LossyFrom(SubSeq(s, lo, hi), 1) \o SubSeq(s, hi + 1, n)

\* str::trim_matches('\0') in the place of trim_end_matches: leading NULs go too.
trim_nul_both_ends(s) ==
    LET n == Len(s)
        k == CHOOSE k \in 0..n : (k = 0 \/ s[k] # 0) /\ \A j \in (k + 1)..n : s[j] = 0
        a == CHOOSE a \in 1..(k + 1) : (a = k + 1 \/ s[a] # 0) /\ \A j \in 1..(a - 1) : s[j] = 0
    IN  SubSeq(s, a, k)

\* str::trim_end_matches('\0'): drop every trailing NUL character.
trim_end_nul(s) ==
    LET n == Len(s)
        k == CHOOSE k \in 0..n : (k = 0 \/ s[k] # 0) /\ \A j \in (k + 1)..n : s[j] = 0
    IN  SubSeq(s, 1, k)

(***************************************************************************)
(* RconPacket.                                                             *)
(***************************************************************************)
RconPacket(request_id, packet_type, payload) ==
    [request_id |-> request_id, packet_type |-> packet_type, payload |-> payload]

\* to_bytes with the limit test off by one (>= for >).
to_bytes_limit_off_by_one(p) ==
    LET payload_bytes == p.payload
    IN  IF Len(payload_bytes) >= MAX_REQUEST_PAYLOAD_SIZE
        THEN Err("InvalidPacket", "Payload too large")
        ELSE LET packet_size == 4 + 4 + Len(payload_bytes) + 2
             IN  Ok(write_i32(packet_size) \o write_i32(p.request_id)
                        \o write_i32(p.packet_type) \o payload_bytes \o << 0, 0 >>)

\* to_bytes with a size field that leaves the two terminators out.
to_bytes_size_without_terminators(p) ==
    LET payload_bytes == p.payload
    IN  IF Len(payload_bytes) > MAX_REQUEST_PAYLOAD_SIZE
        THEN Err("InvalidPacket", "Payload too large")
        ELSE LET packet_size == 4 + 4 + Len(payload_bytes)
             IN  Ok(write_i32(packet_size) \o write_i32(p.request_id)
                        \o write_i32(p.packet_type) \o payload_bytes \o << 0, 0 >>)

\* RconPacket::to_bytes
to_bytes(p) ==
    LET payload_bytes == p.payload
    IN  IF Len(payload_bytes) > MAX_REQUEST_PAYLOAD_SIZE
        THEN Err("InvalidPacket", "Payload too large")
        ELSE LET packet_size == 4 + 4 + Len(payload_bytes) + 2
             IN  Ok(write_i32(packet_size) \o write_i32(p.request_id)
                        \o write_i32(p.packet_type) \o payload_bytes \o << 0, 0 >>)

\* RconPacket::from_bytes under the build profile `checks` (overflow checks on/off).
from_bytes_in(data, checks) ==
    IF Len(data) < 12 THEN Err("InvalidPacket", "Packet too short")
    ELSE
    LET packet_length == read_i32(data, 1)
        total == usize_add(i32_as_usize(packet_length), 4)
        expected_total_length == total.value
    IN  IF total.overflow /\ checks THEN Panic("attempt to add with overflow")
        ELSE IF len_as_usize(Len(data)) # expected_total_length
        THEN Err("InvalidPacket", "Packet length mismatch")
        ELSE
        LET request_id == read_i32(data, 5)
            packet_type == read_i32(data, 9)
            diff == usize_sub(usize_sub(i32_as_usize(packet_length), 8).value, 2)
            subOverflow == usize_sub(i32_as_usize(packet_length), 8).overflow \/ diff.overflow
            payload_length == diff.value
        IN  IF subOverflow /\ checks THEN Panic("attempt to subtract with overflow")
            ELSE IF usize_exceeds_isize(payload_length) THEN Panic("capacity overflow")
            ELSE IF ~usize_fits_int(payload_length) \/ usize_to_int(payload_length) > Len(data) - 12
            THEN Err("InvalidPacket", "Failed to read payload")
            ELSE
            LET payload_bytes == SubSeq(data, 13, 12 + usize_to_int(payload_length))
                payload == trim_end_nul(from_utf8_lossy(payload_bytes))
            IN  Ok(RconPacket(request_id, packet_type, payload))

from_bytes(data) == from_bytes_in(data, overflow_checks)

\* RconPacket::auth
auth_packet(rid, password) == RconPacket(rid, AUTH, password)

\* RconPacket::command
command_packet(rid, command) == RconPacket(rid, EXECCOMMAND, command)

\* RconPacket::is_auth_response
is_auth_response(p) == p.packet_type = EXECCOMMAND

\* RconPacket::is_command_response
is_command_response(p) == p.packet_type = RESPONSE_VALUE

\* auth_successful that compares the request id alone.
auth_successful_id_only(p, expected_request_id) ==
    p.request_id = expected_request_id

\* auth_successful that looks at the packet type alone.
auth_successful_type_only(p, expected_request_id) ==
    is_auth_response(p)

\* RconPacket::auth_successful
auth_successful(p, expected_request_id) ==
    is_auth_response(p) /\ p.request_id = expected_request_id

(***************************************************************************)
(* RconClient.                                                             *)
(***************************************************************************)
NoConfig == [password |-> << >>]

NoClient == [stream |-> 0, next_request_id |-> 0, config |-> NoConfig]

\* i32::wrapping_add(1)
wrapping_add_1(x) == IF x = MaxI32 THEN MinI32 ELSE x + 1

\* next_request_id that advances the counter by 2.
next_request_id_by_two(c) ==
    [id |-> c.next_request_id,
     client |-> [c EXCEPT !.next_request_id = wrapping_add_1(wrapping_add_1(c.next_request_id))]]

\* next_request_id that puts 0 in the place of -1.
next_request_id_skipping_to_zero(c) ==
    LET id == c.next_request_id
        incremented == wrapping_add_1(c.next_request_id)
        stored == IF incremented = -1 THEN 0 ELSE incremented
    IN  [id |-> id, client |-> [c EXCEPT !.next_request_id = stored]]

\* next_request_id without the test that skips -1.
next_request_id_no_skip(c) ==
    [id |-> c.next_request_id,
     client |-> [c EXCEPT !.next_request_id = wrapping_add_1(c.next_request_id)]]

\* RconClient::next_request_id: the id returned and the client after the call.
next_request_id(c) ==
    LET id == c.next_request_id
        incremented == wrapping_add_1(c.next_request_id)
        stored == IF incremented = -1 THEN 1 ELSE incremented
    IN  [id |-> id, client |-> [c EXCEPT !.next_request_id = stored]]

\* RconClient::send_packet: Ok(bytes written) or the error; write_ok tells
\* whether write_all succeeds.
send_packet(packet, write_ok) ==
    LET bytes == to_bytes(packet)
    IN  IF ~IsOk(bytes) THEN bytes
        ELSE IF ~write_ok THEN Err("Network", "write_all")
        ELSE bytes

\* read_packet without the test `packet_length < 8`.
read_packet_without_lower_bound(inb, eof, checks) ==
    IF Len(inb) < 4
    THEN [blocked |-> ~eof, result |-> Err("Network", "read_exact"), size |-> 0, consumed |-> Len(inb)]
    ELSE
    LET size == read_i32(inb, 1)
        packet_length == i32_as_usize(size)
    IN  IF usize_lt(len_as_usize(MAX_RESPONSE_PAYLOAD_SIZE + 10), packet_length)
        THEN [blocked |-> FALSE, result |-> Err("InvalidPacket", "Packet too large"),
              size |-> size, consumed |-> 4]
        ELSE LET n == usize_to_int(packet_length)
             IN  IF Len(inb) - 4 < n
                 THEN [blocked |-> ~eof, result |-> Err("Network", "read_exact"),
                       size |-> size, consumed |-> Len(inb)]
                 ELSE [blocked |-> FALSE, result |-> from_bytes_in(SubSeq(inb, 1, n + 4), checks),
                       size |-> size, consumed |-> n + 4]

\* RconClient::read_packet on the unread bytes inb of the stream (eof: the server
\* has closed it): the result, the size prefix read and the number of bytes
\* taken from the stream; blocked when read_exact has to wait for more bytes.
read_packet_in(inb, eof, checks) ==
    IF Len(inb) < 4
    THEN [blocked |-> ~eof, result |-> Err("Network", "read_exact"), size |-> 0, consumed |-> Len(inb)]
    ELSE
    LET size == read_i32(inb, 1)
        packet_length == i32_as_usize(size)
    IN  IF usize_lt(packet_length, len_as_usize(8))
        THEN [blocked |-> FALSE, result |-> Err("InvalidPacket", "Packet too short"),
              size |-> size, consumed |-> 4]
        ELSE IF usize_lt(len_as_usize(MAX_RESPONSE_PAYLOAD_SIZE + 10), packet_length)
        THEN [blocked |-> FALSE, result |-> Err("InvalidPacket", "Packet too large"),
              size |-> size, consumed |-> 4]
        ELSE LET n == usize_to_int(packet_length)
             IN  IF Len(inb) - 4 < n
                 THEN [blocked |-> ~eof, result |-> Err("Network", "read_exact"),
                       size |-> size, consumed |-> Len(inb)]
                 ELSE [blocked |-> FALSE, result |-> from_bytes_in(SubSeq(inb, 1, n + 4), checks),
                       size |-> size, consumed |-> n + 4]

read_packet(inb, eof) == read_packet_in(inb, eof, overflow_checks)

\* connect that hands the client out whatever authenticate returned.
connect_result_ignoring_auth(auth_result, c) == Ok(c)

\* RconClient::connect, after authenticate: `client.authenticate().await?; Ok(client)`.
connect_result(auth_result, c) ==
    IF IsOk(auth_result) THEN Ok(c) ELSE auth_result

\* The body of authenticate after read_packet returned `response`.
authenticate_result(response, rid) ==
    IF ~IsOk(response) THEN response
    ELSE IF auth_successful(response.val, rid) THEN Ok(<< >>)
    ELSE Err("AuthenticationFailed", "")

\* The String read_command_response accumulates is kept run-length encoded:
\* a sequence of runs [byte, count], count > 0, adjacent runs of other bytes.
\* runs(s) is the encoding of the bytes s.
runs(s) ==
    LET n == Len(s)
        starts == { i \in 1..n : i = 1 \/ s[i] # s[i - 1] }
        k == Cardinality(starts)
        start(j) == CHOOSE i \in starts : Cardinality({ x \in starts : x < i }) = j - 1
        stop(j) == IF j = k THEN n ELSE start(j + 1) - 1
    IN  [j \in 1..k |-> [byte |-> s[start(j)], count |-> stop(j) - start(j) + 1]]

\* The text a followed by the text b.
text_concat(a, b) ==
    IF a = << >> THEN b
    ELSE IF b = << >> THEN a
    ELSE IF a[Len(a)].byte = b[1].byte
    THEN [a EXCEPT ![Len(a)].count = @ + b[1].count] \o Tail(b)
    ELSE a \o b

\* String::push_str
push_str(text, s) == text_concat(text, runs(s))

\* String::len
RECURSIVE text_len(_)
text_len(text) ==
    IF text = << >> THEN 0 ELSE text[1].count + text_len(Tail(text))

\* response_step that puts a fragment in front of the accumulated text.
response_step_prepending(packet, expected_request_id, full, received) ==
    LET n == received + 1
    IN  IF packet.request_id # expected_request_id
        THEN [done |-> FALSE, result |-> Ok(<< >>), full |-> full, received |-> n]
        ELSE IF ~is_command_response(packet)
        THEN [done |-> TRUE, result |-> Err("Protocol", "Expected command response"),
              full |-> full, received |-> n]
        ELSE LET acc == text_concat(runs(packet.payload), full)
             IN  IF Len(packet.payload) < MAX_RESPONSE_PAYLOAD_SIZE
                 THEN [done |-> TRUE, result |-> Ok(acc), full |-> acc, received |-> n]
                 ELSE IF n > 100
                 THEN [done |-> TRUE, result |-> Err("Protocol", "Too many response packets received"),
                       full |-> acc, received |-> n]
                 ELSE [done |-> FALSE, result |-> Ok(<< >>), full |-> acc, received |-> n]

\* response_step that tests the packet type before the request id.
response_step_type_before_id(packet, expected_request_id, full, received) ==
    LET n == received + 1
    IN  IF ~is_command_response(packet)
        THEN [done |-> TRUE, result |-> Err("Protocol", "Expected command response"),
              full |-> full, received |-> n]
        ELSE IF packet.request_id # expected_request_id
        THEN [done |-> FALSE, result |-> Ok(<< >>), full |-> full, received |-> n]
        ELSE LET acc == push_str(full, packet.payload)
             IN  IF Len(packet.payload) < MAX_RESPONSE_PAYLOAD_SIZE
                 THEN [done |-> TRUE, result |-> Ok(acc), full |-> acc, received |-> n]
                 ELSE IF n > 100
                 THEN [done |-> TRUE, result |-> Err("Protocol", "Too many response packets received"),
                       full |-> acc, received |-> n]
                 ELSE [done |-> FALSE, result |-> Ok(<< >>), full |-> acc, received |-> n]

\* response_step without the test of the packet type.
response_step_any_type(packet, expected_request_id, full, received) ==
    LET n == received + 1
    IN  IF packet.request_id # expected_request_id
        THEN [done |-> FALSE, result |-> Ok(<< >>), full |-> full, received |-> n]
        ELSE LET acc == push_str(full, packet.payload)
             IN  IF Len(packet.payload) < MAX_RESPONSE_PAYLOAD_SIZE
                 THEN [done |-> TRUE, result |-> Ok(acc), full |-> acc, received |-> n]
                 ELSE IF n > 100
                 THEN [done |-> TRUE, result |-> Err("Protocol", "Too many response packets received"),
                       full |-> acc, received |-> n]
                 ELSE [done |-> FALSE, result |-> Ok(<< >>), full |-> acc, received |-> n]

\* response_step that gives up one packet earlier (>= 100 for > 100).
response_step_limit_early(packet, expected_request_id, full, received) ==
    LET n == received + 1
    IN  IF packet.request_id # expected_request_id
        THEN [done |-> FALSE, result |-> Ok(<< >>), full |-> full, received |-> n]
        ELSE IF ~is_command_response(packet)
        THEN [done |-> TRUE, result |-> Err("Protocol", "Expected command response"),
              full |-> full, received |-> n]
        ELSE LET acc == push_str(full, packet.payload)
             IN  IF Len(packet.payload) < MAX_RESPONSE_PAYLOAD_SIZE
                 THEN [done |-> TRUE, result |-> Ok(acc), full |-> acc, received |-> n]
                 ELSE IF n >= 100
                 THEN [done |-> TRUE, result |-> Err("Protocol", "Too many response packets received"),
                       full |-> acc, received |-> n]
                 ELSE [done |-> FALSE, result |-> Ok(<< >>), full |-> acc, received |-> n]

\* response_step that gives up one packet later (> 101 for > 100).
response_step_limit_late(packet, expected_request_id, full, received) ==
    LET n == received + 1
    IN  IF packet.request_id # expected_request_id
        THEN [done |-> FALSE, result |-> Ok(<< >>), full |-> full, received |-> n]
        ELSE IF ~is_command_response(packet)
        THEN [done |-> TRUE, result |-> Err("Protocol", "Expected command response"),
              full |-> full, received |-> n]
        ELSE LET acc == push_str(full, packet.payload)
             IN  IF Len(packet.payload) < MAX_RESPONSE_PAYLOAD_SIZE
                 THEN [done |-> TRUE, result |-> Ok(acc), full |-> acc, received |-> n]
                 ELSE IF n > 101
                 THEN [done |-> TRUE, result |-> Err("Protocol", "Too many response packets received"),
                       full |-> acc, received |-> n]
                 ELSE [done |-> FALSE, result |-> Ok(<< >>), full |-> acc, received |-> n]

\* One turn of the loop of read_command_response on a packet read_packet
\* returned: whether the loop ends, its result then, and the locals after it.
response_step(packet, expected_request_id, full, received) ==
    LET n == received + 1
    IN  IF packet.request_id # expected_request_id
        THEN [done |-> FALSE, result |-> Ok(<< >>), full |-> full, received |-> n]
        ELSE IF ~is_command_response(packet)
        THEN [done |-> TRUE, result |-> Err("Protocol", "Expected command response"),
              full |-> full, received |-> n]
        ELSE LET acc == push_str(full, packet.payload)
             IN  IF Len(packet.payload) < MAX_RESPONSE_PAYLOAD_SIZE
                 THEN [done |-> TRUE, result |-> Ok(acc), full |-> acc, received |-> n]
                 ELSE IF n > 100
                 THEN [done |-> TRUE, result |-> Err("Protocol", "Too many response packets received"),
                       full |-> acc, received |-> n]
                 ELSE [done |-> FALSE, result |-> Ok(<< >>), full |-> acc, received |-> n]

(***************************************************************************)
(* The callers of main.rs: which call of RconClient comes next.            *)
(***************************************************************************)
MAX_RETRIES == 3

\* The commands main.rs sends by itself, as ASCII bytes.
LIST == << 108, 105, 115, 116 >>
VERSION == << 118, 101, 114, 115, 105, 111, 110 >>
SEED == << 115, 101, 101, 100 >>
DIFFICULTY == << 100, 105, 102, 102, 105, 99, 117, 108, 116, 121 >>
GAMERULE == << 103, 97, 109, 101, 114, 117, 108, 101 >>
LIST_UUIDS == << 108, 105, 115, 116, 32, 117, 117, 105, 100, 115 >>

\* run_info_command: the commands it sends.
info_commands(detailed) ==
    IF detailed THEN << LIST, VERSION, SEED, DIFFICULTY, GAMERULE >> ELSE << LIST, VERSION >>

\* Where a caller goes once connect_with_retry has returned its client.
entered(m) == IF m.command = "interactive" THEN "prompt" ELSE "loop"

\* connect_with_retry that retries after the third failure as well (<= for <).
after_connect_retrying_once_more(m, site, att, result, old) ==
    IF site = "connect_with_retry"
    THEN IF IsOk(result) THEN [caller_pc |-> entered(m), attempt |-> att, client |-> result.val]
         ELSE IF att <= MAX_RETRIES
         THEN [caller_pc |-> "retry_delay", attempt |-> att, client |-> old]
         ELSE [caller_pc |-> "exited", attempt |-> att, client |-> old]
    ELSE IF site = "reconnect"
    THEN [caller_pc |-> "prompt", attempt |-> att,
          client |-> IF IsOk(result) THEN result.val ELSE old]
    ELSE [caller_pc |-> IF IsOk(result) THEN "retry" ELSE "prompt", attempt |-> att,
          client |-> IF IsOk(result) THEN result.val ELSE old]

\* A reconnect that hands the old request-id counter on to the new client.
after_connect_keeping_counter(m, site, att, result, old) ==
    IF site = "connect_with_retry"
    THEN IF IsOk(result) THEN [caller_pc |-> entered(m), attempt |-> att, client |-> result.val]
         ELSE IF att < MAX_RETRIES
         THEN [caller_pc |-> "retry_delay", attempt |-> att, client |-> old]
         ELSE [caller_pc |-> "exited", attempt |-> att, client |-> old]
    ELSE [caller_pc |-> IF site = "reconnect" THEN "prompt"
                        ELSE IF IsOk(result) THEN "retry" ELSE "prompt",
          attempt |-> att,
          client |-> IF IsOk(result)
                     THEN [result.val EXCEPT !.next_request_id = old.next_request_id]
                     ELSE old]

\* The caller after RconClient::connect returned `result` at the call site
\* `site`: connect_with_retry (attempt att), the reconnect command of the
\* interactive mode, or the reconnect after a lost connection.  `old` is the
\* caller's client before the call: `*client = connect(..).await?` assigns on
\* success only.  A failed attempt of connect_with_retry that is not the last
\* one goes to sleep(RETRY_DELAY).
after_connect(m, site, att, result, old) ==
    IF site = "connect_with_retry"
    THEN IF IsOk(result) THEN [caller_pc |-> entered(m), attempt |-> att, client |-> result.val]
         ELSE IF att < MAX_RETRIES
         THEN [caller_pc |-> "retry_delay", attempt |-> att, client |-> old]
         ELSE [caller_pc |-> "exited", attempt |-> att, client |-> old]
    ELSE IF site = "reconnect"
    THEN [caller_pc |-> "prompt", attempt |-> att,
          client |-> IF IsOk(result) THEN result.val ELSE old]
    ELSE [caller_pc |-> IF IsOk(result) THEN "retry" ELSE "prompt", attempt |-> att,
          client |-> IF IsOk(result) THEN result.val ELSE old]

\* The calls of execute_command a caller can make next: the command and the
\* call site.  `done_calls` commands have been sent; `line` is the input of the
\* interactive mode read last.
call_sites(m, cpc, done_calls, line, lines) ==
    IF cpc = "prompt"
    THEN { [command |-> c, site |-> "command"] : c \in lines }
             \cup { [command |-> LIST, site |-> "status"] }
    ELSE IF cpc = "retry" THEN { [command |-> line, site |-> "retry"] }
    ELSE IF cpc = "fallback" THEN { [command |-> LIST, site |-> "fallback"] }
    ELSE IF cpc # "loop" THEN { }
    ELSE IF m.command = "exec" THEN { [command |-> c, site |-> "loop"] : c \in lines }
    ELSE IF m.command = "ping" THEN { [command |-> LIST, site |-> "loop"] }
    ELSE IF m.command = "players" THEN { [command |-> LIST_UUIDS, site |-> "loop"] }
    ELSE IF m.command = "info" /\ done_calls < Len(info_commands(m.detailed))
    THEN { [command |-> info_commands(m.detailed)[done_calls + 1], site |-> "loop"] }
    ELSE { }

\* after_execute that reconnects after an error of any kind.
after_execute_reconnecting_on_any_error(m, site, result, done_calls) ==
    IF m.command = "interactive"
    THEN IF site = "command" /\ IsErr(result) THEN "auto_reconnect" ELSE "prompt"
    ELSE IF m.command = "exec" THEN "exited"
    ELSE IF m.command = "players"
    THEN IF site = "loop" /\ IsErr(result) THEN "fallback" ELSE "exited"
    ELSE IF m.command = "ping"
    THEN IF done_calls < m.count THEN "loop" ELSE "exited"
    ELSE IF done_calls < Len(info_commands(m.detailed)) THEN "loop" ELSE "exited"

\* The caller after execute_command (or ping) returned `result` at `site`,
\* `done_calls` commands having been sent so far.
after_execute(m, site, result, done_calls) ==
    IF m.command = "interactive"
    THEN IF site = "command" /\ IsErr(result) /\ result.val.kind \in { "Network", "Disconnected" }
         THEN "auto_reconnect"
         ELSE "prompt"
    ELSE IF m.command = "exec" THEN "exited"
    ELSE IF m.command = "players"
    THEN IF site = "loop" /\ IsErr(result) THEN "fallback" ELSE "exited"
    ELSE IF m.command = "ping"
    THEN IF done_calls < m.count THEN "loop" ELSE "exited"
    ELSE IF done_calls < Len(info_commands(m.detailed)) THEN "loop" ELSE "exited"

(***************************************************************************)
(* Inputs of the codec harness.                                            *)
(***************************************************************************)
\* Characters of the short payloads: NUL, 'A' and the two-byte U+00E9.
Chars == { << 0 >>, << 65 >>, << 195, 169 >> }

RECURSIVE Strings(_)
Strings(n) ==
    IF n = 0 THEN { << >> }
    ELSE LET S == Strings(n - 1) IN S \cup { s \o c : s \in S, c \in Chars }

Fill(n) == [i \in 1..n |-> 65]

\* Payloads at the request limit: one byte below, at and above it, one that ends
\* with NUL and one that ends with a two-byte character.
LongPayloads ==
    { Fill(MAX_REQUEST_PAYLOAD_SIZE - 1), Fill(MAX_REQUEST_PAYLOAD_SIZE),
      Fill(MAX_REQUEST_PAYLOAD_SIZE + 1),
      Fill(MAX_REQUEST_PAYLOAD_SIZE - 1) \o << 0 >>,
      Fill(MAX_REQUEST_PAYLOAD_SIZE - 2) \o << 195, 169 >> }

Payloads == Strings(MaxChars) \cup LongPayloads

\* 16909060 = 0x01020304: four different bytes.
RequestIds == { MinI32, -1, 0, 1, 16909060, MaxI32 }

PacketTypes == { RESPONSE_VALUE, EXECCOMMAND, AUTH, MinI32 }

Packets == { RconPacket(i, t, s) : i \in RequestIds, t \in PacketTypes, s \in Payloads }

\* 65544 = 0x00010008: its low 16 bits alone read 8.
SizeFields == { MinI32, -5, -4, -1, 0, 7, 8, 9, 10, 11, 12, 65544, MaxI32 }

RECURSIVE ByteSeqs(_)
ByteSeqs(n) ==
    IF n = 0 THEN { << >> }
    ELSE LET S == ByteSeqs(n - 1) IN S \cup { s \o << b >> : s \in S, b \in { 0, 65, 255 } }

\* Raw buffers: a 12-byte header with any size field and a few bytes after it,
\* and every proper prefix of such a header.
Buffers ==
    LET whole == { write_i32(s) \o write_i32(1) \o write_i32(RESPONSE_VALUE) \o body :
                       s \in SizeFields, body \in ByteSeqs(MaxBody) }
    IN  whole \cup { SubSeq(write_i32(s) \o write_i32(1) \o write_i32(RESPONSE_VALUE), 1, k) :
                       s \in SizeFields, k \in 0..11 }

NoPacket == RconPacket(0, 0, << >>)
NoResult == [tag |-> "None", val |-> 0]


(***************************************************************************)
(* Inputs of the connection model.                                         *)
(***************************************************************************)
\* A password that fits an AUTH packet and one that does not (the command line
\* only refuses the empty password).
Passwords == { << 112 >>, Fill(MAX_REQUEST_PAYLOAD_SIZE + 1) }

\* A command that fits a packet and one that does not.
CommandLines == { << 108 >>, Fill(MAX_REQUEST_PAYLOAD_SIZE + 1) }

\* A frame as a server writes it: payloads up to 4096 bytes.
ServerFrame(id, type, payload) ==
    write_i32(Len(payload) + 10) \o write_i32(id) \o write_i32(type) \o payload \o << 0, 0 >>

\* Well-formed frames with the ids and types the exchanges tell apart: empty
\* ones, some with a payload, and one of the largest size read_packet accepts
\* (a payload of 4096 bytes).
GoodFrames ==
    { ServerFrame(i, t, << >>) : i \in { -1, 1, 2 }, t \in { RESPONSE_VALUE, EXECCOMMAND, AUTH } }
        \cup { ServerFrame(-1, t, << 65 >>) : t \in { RESPONSE_VALUE, EXECCOMMAND, AUTH, 7 } }
        \cup { ServerFrame(1, EXECCOMMAND, << 65 >>), ServerFrame(2, RESPONSE_VALUE, << 65 >>),
               ServerFrame(2, RESPONSE_VALUE, Fill(MAX_RESPONSE_PAYLOAD_SIZE)) }

\* Size prefixes read_packet must refuse, each followed by two more bytes.
BadSizes == { MinI32, -1, 7, MAX_RESPONSE_PAYLOAD_SIZE + 11, MaxI32 }

BadPrefixes == { write_i32(n) \o << 65, 65 >> : n \in BadSizes }

\* Frames of size 8 and 9: too short to hold the two terminators.
ShortFrames ==
    { write_i32(8) \o write_i32(1) \o write_i32(EXECCOMMAND),
      write_i32(9) \o write_i32(2) \o write_i32(RESPONSE_VALUE) \o << 0 >> }

\* The start of a frame one byte above the largest size read_packet accepts:
\* size field 4107, request id 11, packet type 3 and the first bytes of the
\* payload, NUL NUL NUL NUL 'B' NUL NUL.
OversizedFrames ==
    { write_i32(MAX_RESPONSE_PAYLOAD_SIZE + 11) \o write_i32(11) \o write_i32(3)
          \o << 0, 0, 0, 0, 66, 0, 0 >> }

ServerChunks == GoodFrames \cup BadPrefixes \cup ShortFrames \cup OversizedFrames

Conns == 1..MaxConns

\* The subcommands of the command line: exec, interactive, ping --count n,
\* info [--detailed], players.
Modes ==
    { [command |-> k, count |-> 0, detailed |-> FALSE] : k \in { "exec", "interactive", "players", "info" } }
        \cup { [command |-> "info", count |-> 0, detailed |-> TRUE] }
        \cup { [command |-> "ping", count |-> n, detailed |-> FALSE] : n \in 1..MaxCalls }

NoMode == [command |-> "none", count |-> 0, detailed |-> FALSE]

NoRead == [size |-> 0, consumed |-> 0, result |-> NoResult]
NoAuth == [rid |-> 0, response |-> NoResult, result |-> NoResult]

\* The variables of a harness that is not running.
CodecIdle ==
    /\ codec_pc = "off"
    /\ pkt = NoPacket
    /\ frame = NoResult
    /\ buf = << >>
    /\ decoded = NoResult

ConnIdle ==
    /\ config = NoConfig
    /\ mode = NoMode
    /\ caller_pc = "off"
    /\ attempt = 0
    /\ input = << >>
    /\ fed = << >>
    /\ conn_count = 0
    /\ open = [c \in Conns |-> FALSE]
    /\ server_open = [c \in Conns |-> FALSE]
    /\ inbound = [c \in Conns |-> << >>]
    /\ chunks_sent = 0
    /\ written = [c \in Conns |-> << >>]
    /\ authed = [c \in Conns |-> FALSE]
    /\ building = NoClient
    /\ pc = "off"
    /\ op_request_id = 0
    /\ full_response = << >>
    /\ packets_received = 0
    /\ calls = 0
    /\ last_op = "none"
    /\ last_result = NoResult
    /\ last_read = NoRead
    /\ auth = NoAuth
    /\ faulted = { }
    /\ discarded = { }

(***************************************************************************)
(* The connection model: one caller that connects, reconnects and executes *)
(* commands through RconClient, and a server that sends what it likes.     *)
(***************************************************************************)
Init ==
    /\ overflow_checks \in BOOLEAN
    /\ CodecIdle
    /\ id_allocs = 0
    /\ fed = << >>
    /\ config \in [password : Passwords]
    /\ mode \in Modes
    /\ caller_pc = "connect_with_retry"
    /\ attempt = 1
    /\ input = << >>
    /\ conn_count = 0
    /\ open = [c \in Conns |-> FALSE]
    /\ server_open = [c \in Conns |-> FALSE]
    /\ inbound = [c \in Conns |-> << >>]
    /\ chunks_sent = 0
    /\ written = [c \in Conns |-> << >>]
    /\ authed = [c \in Conns |-> FALSE]
    /\ client = NoClient
    /\ building = NoClient
    /\ pc = "idle"
    /\ op_request_id = 0
    /\ full_response = << >>
    /\ packets_received = 0
    /\ calls = 0
    /\ last_op = "none"
    /\ last_result = NoResult
    /\ last_read = NoRead
    /\ auth = NoAuth
    /\ faulted = { }
    /\ discarded = { }

\* History: the connections the caller held when a reconnect returned.
reconnect_returned(site, old, before) ==
    IF site \in { "reconnect", "auto_reconnect" } THEN before \cup { old.stream } ELSE before

\* History: the connections on which execute_command returned a network error.
network_failed(result, c, before) ==
    IF IsErr(result) /\ result.val.kind = "Network" THEN before \cup { c.stream } ELSE before

\* The call sites of RconClient::connect the caller is at: connect_with_retry,
\* or in the interactive mode the reconnect command and the reconnect after a
\* lost connection.
connect_sites(cpc) ==
    IF cpc = "connect_with_retry" THEN { "connect_with_retry" }
    ELSE IF cpc = "prompt" THEN { "reconnect" }
    ELSE IF cpc = "auto_reconnect" THEN { "auto_reconnect" }
    ELSE { }

\* RconClient::connect when TcpStream::connect fails or times out, and the
\* caller's handling of the error.
ConnectTcpFails ==
    /\ pc = "idle"
    /\ conn_count < MaxConns
    /\ \E site \in connect_sites(caller_pc), kind \in { "Timeout", "Network" } :
          LET result == Err(kind, "connect")
              after == after_connect(mode, site, attempt, result, client)
          IN  /\ last_result' = result
              /\ caller_pc' = after.caller_pc
              /\ attempt' = after.attempt
              /\ client' = after.client
              /\ discarded' = reconnect_returned(site, client, discarded)
    /\ last_op' = "connect"
    /\ last_read' = NoRead
    /\ auth' = NoAuth
    /\ UNCHANGED <<overflow_checks, codec_vars, id_allocs, fed, faulted, config, mode, input, conn_count,
                   open, server_open, inbound, chunks_sent, written, authed, building, pc,
                   op_request_id, full_response, packets_received, calls>>

\* RconClient::connect up to the read of authenticate: the socket opens, the
\* client is built with next_request_id = 1 and a clone of the configuration,
\* and authenticate sends AUTH.
Connect ==
    /\ pc = "idle"
    /\ conn_count < MaxConns
    /\ \E site \in connect_sites(caller_pc), write_ok \in BOOLEAN :
          LET c == conn_count + 1
              alloc == next_request_id([stream |-> c, next_request_id |-> 1, config |-> config])
              sent == send_packet(auth_packet(alloc.id, alloc.client.config.password), write_ok)
          IN  /\ conn_count' = c
              /\ server_open' = [server_open EXCEPT ![c] = TRUE]
              /\ op_request_id' = alloc.id
              /\ last_read' = NoRead
              /\ auth' = NoAuth
              /\ IF IsOk(sent)
                 THEN /\ written' = [written EXCEPT ![c] = Append(@, sent.val)]
                      /\ open' = [open EXCEPT ![c] = TRUE]
                      /\ building' = alloc.client
                      /\ pc' = "authenticate"
                      /\ caller_pc' = site
                      /\ last_op' = "none"
                      /\ last_result' = NoResult
                      /\ UNCHANGED <<attempt, client, discarded>>
                 ELSE \* authenticate fails, connect returns the error, the socket is dropped
                      LET after == after_connect(mode, site, attempt, sent, client)
                      IN  /\ last_op' = "connect"
                          /\ last_result' = sent
                          /\ caller_pc' = after.caller_pc
                          /\ attempt' = after.attempt
                          /\ client' = after.client
                          /\ discarded' = reconnect_returned(site, client, discarded)
                          /\ UNCHANGED <<written, open, building, pc>>
    /\ UNCHANGED <<overflow_checks, codec_vars, id_allocs, fed, faulted, config, mode, input, inbound,
                   chunks_sent, authed, full_response, packets_received, calls>>

\* The rest of authenticate and of connect, and the caller's handling of the
\* result: the response is read and judged; on success the caller's client
\* becomes the new one (a client it replaces is dropped), on failure the new
\* socket is dropped.
AuthenticateRead ==
    /\ pc = "authenticate"
    /\ LET c == building.stream
           r == read_packet(inbound[c], ~server_open[c])
           auth_result == authenticate_result(r.result, op_request_id)
           connected == connect_result(auth_result, building)
           after == after_connect(mode, caller_pc, attempt, connected, client)
       IN  /\ ~r.blocked
           /\ last_read' = [size |-> r.size, consumed |-> r.consumed, result |-> r.result]
           /\ building' = NoClient
           /\ IF IsPanic(r.result)
              THEN /\ pc' = "panicked"
                   /\ inbound' = [inbound EXCEPT ![c] = SubSeq(@, r.consumed + 1, Len(@))]
                   /\ UNCHANGED <<auth, authed, client, open, last_op, last_result, caller_pc,
                                  attempt, discarded>>
              ELSE /\ pc' = "idle"
                   /\ auth' = [rid |-> op_request_id, response |-> r.result, result |-> auth_result]
                   /\ authed' = [authed EXCEPT ![c] = IsOk(auth_result)]
                   /\ last_op' = "connect"
                   /\ last_result' = connected
                   /\ caller_pc' = after.caller_pc
                   /\ attempt' = after.attempt
                   /\ client' = after.client
                   /\ discarded' = reconnect_returned(caller_pc, client, discarded)
                   /\ IF IsOk(connected)
                      THEN /\ open' = [k \in Conns |-> open[k] /\ k # client.stream]
                           /\ inbound' = [k \in Conns |->
                                             IF k = client.stream THEN << >>
                                             ELSE IF k = c THEN SubSeq(inbound[c], r.consumed + 1, Len(inbound[c]))
                                             ELSE inbound[k]]
                      ELSE /\ open' = [open EXCEPT ![c] = FALSE]
                           /\ inbound' = [inbound EXCEPT ![c] = << >>]
    /\ UNCHANGED <<overflow_checks, codec_vars, id_allocs, fed, faulted, config, mode, input, conn_count,
                   server_open, chunks_sent, written, op_request_id, full_response,
                   packets_received, calls>>

\* RconClient::execute_command up to the first read of read_command_response,
\* at one of the call sites the caller is at; when it fails here, the caller's
\* handling of the error.
ExecuteCommand ==
    /\ pc = "idle"
    /\ calls < MaxCalls
    /\ \E call \in call_sites(mode, caller_pc, calls, input, CommandLines), write_ok \in BOOLEAN :
          LET alloc == next_request_id(client)
              sent == send_packet(command_packet(alloc.id, call.command), write_ok)
          IN  /\ client' = alloc.client
              /\ op_request_id' = alloc.id
              /\ input' = IF call.site = "command" THEN call.command ELSE input
              /\ faulted' = network_failed(sent, client, faulted)
              /\ IF IsOk(sent)
                 THEN /\ written' = [written EXCEPT ![client.stream] = Append(@, sent.val)]
                      /\ pc' = "read_command_response"
                      /\ caller_pc' = call.site
                      /\ last_op' = "none"
                      /\ last_result' = NoResult
                 ELSE /\ last_op' = "execute_command"
                      /\ last_result' = sent
                      /\ caller_pc' = after_execute(mode, call.site, sent, calls + 1)
                      /\ UNCHANGED <<written, pc>>
    /\ calls' = calls + 1
    /\ full_response' = << >>
    /\ packets_received' = 0
    /\ last_read' = NoRead
    /\ auth' = NoAuth
    /\ UNCHANGED <<overflow_checks, codec_vars, id_allocs, fed, discarded, config, mode, attempt, conn_count,
                   open, server_open, inbound, chunks_sent, authed, building>>

\* One turn of the loop of read_command_response: read_packet, then the tests;
\* when the call returns, the caller's handling of the result.
ReadCommandResponse ==
    /\ pc = "read_command_response"
    /\ LET c == client.stream
           r == read_packet(inbound[c], ~server_open[c])
       IN  /\ ~r.blocked
           /\ last_read' = [size |-> r.size, consumed |-> r.consumed, result |-> r.result]
           /\ inbound' = [inbound EXCEPT ![c] = SubSeq(@, r.consumed + 1, Len(@))]
           /\ faulted' = network_failed(r.result, client, faulted)
           /\ IF IsPanic(r.result)
              THEN /\ pc' = "panicked"
                   /\ UNCHANGED <<full_response, packets_received, last_op, last_result, caller_pc>>
              ELSE IF IsErr(r.result)
              THEN /\ pc' = "idle"
                   /\ last_op' = "execute_command"
                   /\ last_result' = r.result
                   /\ caller_pc' = after_execute(mode, caller_pc, r.result, calls)
                   /\ UNCHANGED <<full_response, packets_received>>
              ELSE LET step == response_step(r.result.val, op_request_id, full_response,
                                             packets_received)
                   IN  /\ full_response' = step.full
                       /\ packets_received' = step.received
                       /\ IF step.done
                          THEN /\ pc' = "idle"
                               /\ last_op' = "execute_command"
                               /\ last_result' = step.result
                               /\ caller_pc' = after_execute(mode, caller_pc, step.result, calls)
                          ELSE UNCHANGED <<pc, last_op, last_result, caller_pc>>
    /\ UNCHANGED <<overflow_checks, codec_vars, id_allocs, fed, discarded, config, mode, attempt, input,
                   conn_count, open, server_open, chunks_sent, written, authed, client, building,
                   op_request_id, calls, auth>>

\* connect_with_retry: sleep(RETRY_DELAY) is over and the loop goes to its next
\* attempt.
RetryDelay ==
    /\ pc = "idle"
    /\ caller_pc = "retry_delay"
    /\ caller_pc' = "connect_with_retry"
    /\ attempt' = attempt + 1
    /\ UNCHANGED <<overflow_checks, codec_vars, id_allocs, fed, faulted, discarded, config, mode, input,
                   conn_count, open, server_open, inbound, chunks_sent, written, authed, client,
                   building, pc, op_request_id, full_response, packets_received, calls, last_op,
                   last_result, last_read, auth>>

\* The interactive mode reads quit, exit or the end of the input.
Quit ==
    /\ pc = "idle"
    /\ caller_pc = "prompt"
    /\ caller_pc' = "exited"
    /\ UNCHANGED <<overflow_checks, codec_vars, id_allocs, fed, faulted, discarded, config, mode, attempt, input,
                   conn_count, open, server_open, inbound, chunks_sent, written, authed, client,
                   building, pc, op_request_id, full_response, packets_received, calls, last_op,
                   last_result, last_read, auth>>

\* The connection whose stream the client is reading, when read_exact has to
\* wait for bytes; no connection (the empty set) otherwise.  What the client
\* reads depends only on the order of the bytes of a stream, so the server's
\* steps are taken at the moments the client waits for them.
AwaitedConns ==
    LET c == IF pc = "authenticate" THEN building.stream
             ELSE IF pc = "read_command_response" THEN client.stream
             ELSE 0
    IN  IF c # 0 /\ read_packet(inbound[c], ~server_open[c]).blocked THEN { c } ELSE { }

\* The server sends bytes on a connection.
ServerSend ==
    /\ \E c \in AwaitedConns, chunk \in ServerChunks :
          /\ server_open[c]
          /\ chunks_sent < MaxServerChunks
          /\ inbound' = [inbound EXCEPT ![c] = @ \o chunk]
          /\ chunks_sent' = chunks_sent + 1
    /\ UNCHANGED <<overflow_checks, codec_vars, id_allocs, fed, faulted, discarded, config, caller_vars, conn_count,
                   open, server_open, written, authed, client, building, pc, op_request_id,
                   full_response, packets_received, calls, last_op, last_result, last_read, auth>>

\* The server closes a connection.
ServerClose ==
    /\ \E c \in AwaitedConns :
          /\ server_open[c]
          /\ server_open' = [server_open EXCEPT ![c] = FALSE]
    /\ UNCHANGED <<overflow_checks, codec_vars, id_allocs, fed, faulted, discarded, config, caller_vars, conn_count,
                   open, inbound, chunks_sent, written, authed, client, building, pc,
                   op_request_id, full_response, packets_received, calls, last_op, last_result,
                   last_read, auth>>

Next ==
    \/ ConnectTcpFails
    \/ Connect
    \/ AuthenticateRead
    \/ ExecuteCommand
    \/ ReadCommandResponse
    \/ RetryDelay
    \/ Quit
    \/ ServerSend
    \/ ServerClose

Spec == Init /\ [][Next]_vars

(***************************************************************************)
(* The codec harness: to_bytes and from_bytes applied to chosen inputs.    *)
(***************************************************************************)
CodecInit ==
    /\ overflow_checks \in BOOLEAN
    /\ ConnIdle
    /\ client = NoClient
    /\ id_allocs = 0
    /\ codec_pc = "idle"
    /\ pkt = NoPacket
    /\ frame = NoResult
    /\ buf = << >>
    /\ decoded = NoResult

\* to_bytes applied to a packet.
Encode ==
    /\ codec_pc = "idle"
    /\ \E p \in Packets :
          /\ pkt' = p
          /\ frame' = to_bytes(p)
    /\ codec_pc' = "encoded"
    /\ UNCHANGED <<overflow_checks, buf, decoded, conn_vars, id_allocs>>

\* from_bytes applied to the frame to_bytes returned.
DecodeFrame ==
    /\ codec_pc = "encoded"
    /\ IsOk(frame)
    /\ buf' = frame.val
    /\ decoded' = from_bytes(frame.val)
    /\ codec_pc' = "roundtrip"
    /\ UNCHANGED <<overflow_checks, pkt, frame, conn_vars, id_allocs>>

\* from_bytes applied to a raw buffer.
DecodeRaw ==
    /\ codec_pc = "idle"
    /\ \E b \in Buffers :
          /\ buf' = b
          /\ decoded' = from_bytes(b)
    /\ codec_pc' = "decoded"
    /\ UNCHANGED <<overflow_checks, pkt, frame, conn_vars, id_allocs>>

CodecNext == Encode \/ DecodeFrame \/ DecodeRaw

CodecSpec == CodecInit /\ [][CodecNext]_vars


(***************************************************************************)
(* The id harness: next_request_id applied again and again, from counter   *)
(* values that allocations starting at 1 reach (every i32 but -1 and 0).   *)
(***************************************************************************)
\* 2147483646 is two allocations before the counter overflows.
IdStarts == { 1, 16909060, MaxI32 - 1, MinI32, -4 }

IdInit ==
    /\ overflow_checks \in BOOLEAN
    /\ CodecIdle
    /\ ConnIdle
    /\ client \in { [stream |-> 1, next_request_id |-> n, config |-> NoConfig] : n \in IdStarts }
    /\ id_allocs = 0

AllocateId ==
    /\ id_allocs < MaxAllocs
    /\ LET alloc == next_request_id(client)
       IN  /\ client' = alloc.client
           /\ op_request_id' = alloc.id
    /\ id_allocs' = id_allocs + 1
    /\ UNCHANGED <<overflow_checks, codec_vars, faulted, discarded, config, caller_vars, fed, conn_count, open,
                   server_open, inbound, chunks_sent, written, authed, building, pc,
                   full_response, packets_received, calls, last_op, last_result, last_read, auth>>

IdNext == AllocateId

IdSpec == IdInit /\ [][IdNext]_vars

(***************************************************************************)
(* The reassembly harness: execute_command has sent its command with       *)
(* request id 2 on an authenticated connection and read_command_response   *)
(* reads what the server sends, one packet at a time.                      *)
(***************************************************************************)
\* The packets the server chooses from, for the expected id 2 unless stated.
Fragments ==
    << [id |-> 2, type |-> RESPONSE_VALUE, payload |-> Fill(MAX_RESPONSE_PAYLOAD_SIZE)],
       [id |-> 2, type |-> RESPONSE_VALUE, payload |-> [i \in 1..MAX_RESPONSE_PAYLOAD_SIZE |-> 66]],
       [id |-> 2, type |-> RESPONSE_VALUE, payload |-> [i \in 1..120 |-> 67]],
       [id |-> 2, type |-> RESPONSE_VALUE, payload |-> Fill(MAX_RESPONSE_PAYLOAD_SIZE - 1)],
       [id |-> 2, type |-> RESPONSE_VALUE, payload |-> << >>],
       \* 4096 bytes on the wire, the last one NUL
       [id |-> 2, type |-> RESPONSE_VALUE, payload |-> Fill(MAX_RESPONSE_PAYLOAD_SIZE - 1) \o << 0 >>],
       \* 4095 bytes on the wire, the last one not UTF-8
       [id |-> 2, type |-> RESPONSE_VALUE, payload |-> Fill(MAX_RESPONSE_PAYLOAD_SIZE - 2) \o << 255 >>],
       \* packets of other requests
       [id |-> 3, type |-> RESPONSE_VALUE, payload |-> << 65 >>],
       [id |-> 3, type |-> RESPONSE_VALUE, payload |-> Fill(MAX_RESPONSE_PAYLOAD_SIZE)],
       [id |-> 1, type |-> EXECCOMMAND, payload |-> << >>],
       \* the expected id with another type
       [id |-> 2, type |-> EXECCOMMAND, payload |-> << 65 >>],
       [id |-> 2, type |-> AUTH, payload |-> << >>] >>

FragmentFrames ==
    [k \in DOMAIN Fragments |-> ServerFrame(Fragments[k].id, Fragments[k].type, Fragments[k].payload)]

\* The packets the server may send after those of `sent`: any packet while
\* `sent` is short or the limit of read_command_response is near, and on the
\* long way between the two the server goes on as it began: full fragments
\* only, packets of another request only, or two packets of another request
\* and then full fragments.
fragment_menu(sent) ==
    LET n == Len(sent)
        pure == \A i \in 1..n : sent[i] = 1
        stale == \A i \in 1..n : sent[i] = 8
        led == n >= 2 /\ sent[1] = 8 /\ sent[2] = 8 /\ \A i \in 3..n : sent[i] = 1
    IN  IF n < MaxMixed \/ ((pure \/ stale \/ led) /\ n >= 98) THEN DOMAIN Fragments
        ELSE IF pure \/ led THEN { 1 }
        ELSE IF stale THEN { 8 }
        ELSE { }

ReassemblyInit ==
    /\ overflow_checks \in BOOLEAN
    /\ CodecIdle
    /\ id_allocs = 0
    /\ fed = << >>
    /\ config = [password |-> << 112 >>]
    /\ mode = [command |-> "exec", count |-> 0, detailed |-> FALSE]
    /\ caller_pc = "loop"
    /\ attempt = 1
    /\ input = << >>
    /\ conn_count = 1
    /\ open = [c \in Conns |-> c = 1]
    /\ server_open = [c \in Conns |-> c = 1]
    /\ inbound = [c \in Conns |-> << >>]
    /\ chunks_sent = 1
    /\ written = [c \in Conns |->
                     IF c = 1 THEN << to_bytes(auth_packet(1, config.password)).val,
                                      to_bytes(command_packet(2, LIST)).val >>
                     ELSE << >>]
    /\ authed = [c \in Conns |-> c = 1]
    /\ client = [stream |-> 1, next_request_id |-> 3, config |-> config]
    /\ building = NoClient
    /\ pc = "read_command_response"
    /\ op_request_id = 2
    /\ full_response = << >>
    /\ packets_received = 0
    /\ calls = 1
    /\ last_op = "none"
    /\ last_result = NoResult
    /\ last_read = NoRead
    /\ auth = NoAuth
    /\ faulted = { }
    /\ discarded = { }

\* The server sends one more packet while the client waits for it.
ServerSendFragment ==
    /\ Len(fed) < MaxFragments
    /\ \E c \in AwaitedConns, k \in fragment_menu(fed) :
          /\ inbound' = [inbound EXCEPT ![c] = @ \o FragmentFrames[k]]
          /\ fed' = Append(fed, k)
    /\ chunks_sent' = chunks_sent + 1
    /\ UNCHANGED <<overflow_checks, codec_vars, faulted, discarded, id_allocs, config, caller_vars, conn_count, open,
                   server_open, written, authed, client, building, pc, op_request_id,
                   full_response, packets_received, calls, last_op, last_result, last_read, auth>>

ReassemblyNext == ServerSendFragment \/ ReadCommandResponse

ReassemblySpec == ReassemblyInit /\ [][ReassemblyNext]_vars

(***************************************************************************)
(* Claims about the codec, checked under CodecSpec.                        *)
(***************************************************************************)
EndsWithNul(s) == Len(s) > 0 /\ s[Len(s)] = 0

\* f[at..at+3] is x written as four little-endian two's complement bytes.
IsLittleEndianOf(f, at, x) ==
    /\ f[at] = x % 256
    /\ f[at + 1] = (x \div 256) % 256
    /\ f[at + 2] = (x \div (256 * 256)) % 256
    /\ f[at + 3] = (x \div (256 * 256 * 256)) % 256

\* C1 as stated: for every request id, packet type and payload of at most 1446
\* bytes, payloads that contain or end with NUL included, from_bytes(to_bytes(p))
\* is a packet with the request_id, packet_type and payload of p.
C1_RoundTripAnyPayload ==
    codec_pc = "roundtrip" =>
        /\ IsOk(decoded)
        /\ decoded.val.request_id = pkt.request_id
        /\ decoded.val.packet_type = pkt.packet_type
        /\ decoded.val.payload = pkt.payload

\* C1 amended: the round trip returns p for every payload of at most 1446 bytes
\* that does not end with NUL (NUL elsewhere in it is kept); for a payload that
\* ends with NUL the id and type are those of p and the payload is p's payload
\* without its trailing NUL characters.
C1_RoundTripUpToTrailingNul ==
    codec_pc = "roundtrip" =>
        /\ Len(pkt.payload) <= 1446
        /\ IsOk(decoded)
        /\ decoded.val.request_id = pkt.request_id
        /\ decoded.val.packet_type = pkt.packet_type
        /\ ~EndsWithNul(pkt.payload) => decoded.val.payload = pkt.payload
        /\ EndsWithNul(pkt.payload) =>
              LET d == decoded.val.payload
              IN  /\ ~EndsWithNul(d)
                  /\ Len(d) < Len(pkt.payload)
                  /\ d = SubSeq(pkt.payload, 1, Len(d))
                  /\ \A j \in (Len(d) + 1)..Len(pkt.payload) : pkt.payload[j] = 0

\* C1 witness: a packet whose payload holds a NUL and a two-byte character and
\* does not end with NUL has come back unchanged.
C1_Witness ==
    /\ codec_pc = "roundtrip"
    /\ \E i \in 1..Len(pkt.payload) : pkt.payload[i] = 0
    /\ \E i \in 1..Len(pkt.payload) : pkt.payload[i] >= 128
    /\ ~EndsWithNul(pkt.payload)
    /\ decoded = Ok(pkt)

\* C2: to_bytes returns an error if and only if the payload is longer than 1446
\* bytes; for 0..1446 bytes it returns a frame, whatever the id and type.
C2_EncodeFailsIffTooLarge ==
    codec_pc \in { "encoded", "roundtrip" } =>
        /\ IsErr(frame) <=> Len(pkt.payload) > 1446
        /\ IsOk(frame) <=> Len(pkt.payload) <= 1446

\* C2 witness: a payload of 1447 bytes has been refused.
C2_Witness ==
    /\ codec_pc = "encoded"
    /\ Len(pkt.payload) = 1447
    /\ IsErr(frame)

\* C3: a frame for a payload of n bytes is n + 14 bytes long: the size field
\* n + 10, the request id and the type, each 4 bytes little-endian, then the n
\* payload bytes unchanged and two 0x00 bytes.
C3_FrameLayout ==
    (codec_pc \in { "encoded", "roundtrip" } /\ IsOk(frame)) =>
        LET f == frame.val
            n == Len(pkt.payload)
        IN  /\ Len(f) = n + 14
            /\ IsLittleEndianOf(f, 1, n + 10)
            /\ IsLittleEndianOf(f, 5, pkt.request_id)
            /\ IsLittleEndianOf(f, 9, pkt.packet_type)
            /\ \A i \in 1..n : f[12 + i] = pkt.payload[i]
            /\ f[n + 13] = 0
            /\ f[n + 14] = 0

\* C3 witness: a frame for a payload of 1446 bytes with a negative request id.
C3_Witness ==
    /\ codec_pc = "encoded"
    /\ IsOk(frame)
    /\ Len(pkt.payload) = 1446
    /\ pkt.request_id < 0
    /\ Len(frame.val) = 1460

\* C4 as stated: from_bytes returns an error, and no packet, for every buffer
\* shorter than 12 bytes and for every buffer of 12 or more bytes whose size
\* field differs from the buffer length minus 4.
C4_ErrorOnShortOrMismatch ==
    codec_pc = "decoded" =>
        /\ Len(buf) < 12 => IsErr(decoded)
        /\ (Len(buf) >= 12 /\ read_i32(buf, 1) # Len(buf) - 4) => IsErr(decoded)

\* C5 as stated: from_bytes ends by returning a packet or an error for every
\* buffer and never aborts; so for 12 bytes with size field 8 and 13 bytes with
\* size field 9.
C5_DecodingTotal ==
    codec_pc \in { "decoded", "roundtrip" } => (IsOk(decoded) \/ IsErr(decoded))

(***************************************************************************)
(* Claims about the connection, checked under Spec.                        *)
(***************************************************************************)
FrameType(f) == read_i32(f, 9)

\* How many of the frames fs have packet type t.
CountType(fs, t) == Cardinality({ i \in 1..Len(fs) : FrameType(fs[i]) = t })

\* A read_packet call has returned after reading a size prefix.
PrefixRead == last_read.consumed >= 4

\* C6: read_packet accepts a frame only when its size prefix, a signed 32-bit
\* number, is in 8..4106; for every other size, the negative ones included, it
\* returns an error and has read nothing after the 4 bytes of the prefix.
C6_SizePrefixValidated ==
    PrefixRead =>
        /\ (last_read.size < 8 \/ last_read.size > 4106) =>
              /\ IsErr(last_read.result)
              /\ last_read.consumed = 4
        /\ (IsOk(last_read.result) \/ last_read.consumed > 4) =>
              (last_read.size >= 8 /\ last_read.size <= 4106)

\* C6 witness: read_command_response has met the size prefix -1; read_packet
\* returned an error and the two bytes after the prefix are still unread.
C6_Witness ==
    /\ last_read.size = -1
    /\ last_read.consumed = 4
    /\ IsErr(last_read.result)
    /\ last_op = "execute_command"
    /\ inbound[client.stream] = << 65, 65 >>

\* authenticate has read a response packet and returned.
AuthJudged == IsOk(auth.response)

AuthFailed(r) == IsErr(r) /\ r.val.kind = "AuthenticationFailed"

\* C7 as stated: authenticate, having read one response, succeeds if and only if
\* the response's request id equals rid, whatever the packet type; every
\* response with another request id yields AuthenticationFailed.
C7_AuthIffIdMatches ==
    AuthJudged =>
        /\ IsOk(auth.result) <=> auth.response.val.request_id = auth.rid
        /\ auth.response.val.request_id # auth.rid => AuthFailed(auth.result)

\* C7 amended: authenticate succeeds if and only if the response's request id
\* equals rid and its packet type is 2 (EXECCOMMAND, the type of an auth
\* response); every other response, so every response whose request id differs
\* from rid, yields AuthenticationFailed, which connect returns.
C7_AuthIffIdAndTypeMatch ==
    AuthJudged =>
        /\ IsOk(auth.result) <=>
              (auth.response.val.request_id = auth.rid /\ auth.response.val.packet_type = 2)
        /\ ~IsOk(auth.result) => (AuthFailed(auth.result) /\ AuthFailed(last_result))
        /\ auth.response.val.request_id # auth.rid => AuthFailed(auth.result)
        /\ IsOk(auth.result) => (IsOk(last_result) /\ client = last_result.val)

\* C7 witness: a response with the request id of the AUTH packet and type 2 has
\* been read and connect has returned the client.
C7_Witness ==
    /\ AuthJudged
    /\ auth.response.val.request_id = auth.rid
    /\ auth.response.val.packet_type = 2
    /\ IsOk(auth.result)
    /\ last_op = "connect"
    /\ IsOk(last_result)

\* C8: whenever the packet read by authenticate has request id -1, authenticate
\* returns AuthenticationFailed, whatever the packet type and payload.
C8_MinusOneFailsAuth ==
    (AuthJudged /\ auth.response.val.request_id = -1) =>
        /\ AuthFailed(auth.result)
        /\ last_op = "connect"
        /\ AuthFailed(last_result)

\* C8 witness: a response with request id -1, the type of an auth response and a
\* payload has been refused.
C8_Witness ==
    /\ AuthJudged
    /\ auth.response.val.request_id = -1
    /\ auth.response.val.packet_type = EXECCOMMAND
    /\ auth.response.val.payload # << >>
    /\ AuthFailed(auth.result)

\* C9 as stated: on every TCP connection the first frame written is an AUTH
\* frame, exactly one AUTH frame is written, and no EXEC_COMMAND frame is
\* written unless authentication on that connection has succeeded.
C9_ExactlyOneAuth ==
    \A c \in 1..conn_count :
        /\ CountType(written[c], AUTH) = 1
        /\ FrameType(written[c][1]) = AUTH
        /\ CountType(written[c], EXECCOMMAND) > 0 => authed[c]

\* C9 amended: on every TCP connection at most one AUTH frame is written, and
\* it is the first frame written; none is written only when authenticate fails
\* before its frame is on the socket (a password longer than 1446 bytes, a
\* failed write), and then no frame at all is written on that connection; no
\* EXEC_COMMAND frame is written unless authentication on that connection has
\* succeeded.
C9_AtMostOneAuthFirst ==
    \A c \in Conns :
        /\ CountType(written[c], AUTH) <= 1
        /\ written[c] # << >> => FrameType(written[c][1]) = AUTH
        /\ CountType(written[c], EXECCOMMAND) > 0 => authed[c]
        /\ (written[c] = << >> /\ c <= conn_count) =>
              (~authed[c] /\ ~open[c] /\ client.stream # c /\ building.stream # c)

\* C9 witness: a connection on which AUTH and then EXEC_COMMAND were written.
C9_Witness ==
    \E c \in 1..conn_count :
        /\ Len(written[c]) = 2
        /\ FrameType(written[c][1]) = AUTH
        /\ FrameType(written[c][2]) = EXECCOMMAND
        /\ authed[c]

(***************************************************************************)
(* Claims about the request ids, checked under IdSpec.                     *)
(***************************************************************************)
\* C10: for any number of allocations, those that cross the overflow from
\* 2147483647 included, next_request_id never returns -1 and the stored counter
\* is never -1 after an allocation.
C10_NeverMinusOne ==
    id_allocs > 0 =>
        /\ op_request_id # -1
        /\ client.next_request_id # -1

\* C10 witness: 2147483647 has been allocated and the counter has wrapped to
\* -2147483648.
C10_Witness ==
    /\ id_allocs > 0
    /\ op_request_id = 2147483647
    /\ client.next_request_id = -2147483647 - 1

(***************************************************************************)
(* Claims about reassembly, checked under ReassemblySpec.  A packet is     *)
(* what read_packet returns for a frame; its payload is the decoded text.  *)
(***************************************************************************)
\* The packet read_packet returns for each frame of the server.
FragmentPackets ==
    [k \in DOMAIN Fragments |-> from_bytes_in(FragmentFrames[k], FALSE).val]

\* The i-th packet the server has sent.
Sent(i) == FragmentPackets[fed[i]]

\* It is a RESPONSE_VALUE packet with the expected id.
Expected(i) == Sent(i).request_id = op_request_id /\ Sent(i).packet_type = 0

FullAt(i) == Len(Sent(i).payload) = 4096

\* Every packet the server has sent has been read.
AllRead == packets_received = Len(fed) /\ inbound[client.stream] = << >>

\* The runs of each packet's payload.
FragmentRuns == [k \in DOMAIN Fragments |-> runs(FragmentPackets[k].payload)]

\* The runs of the payloads of the first n packets sent, one after the other.
RECURSIVE SentRuns(_)
SentRuns(n) == IF n = 0 THEN << >> ELSE SentRuns(n - 1) \o FragmentRuns[fed[n]]

\* The run-length encoding of the bytes the runs r stand for.
RECURSIVE Merge(_)
Merge(r) ==
    IF Len(r) <= 1 THEN r
    ELSE LET m == Merge(SubSeq(r, 1, Len(r) - 1))
             last == r[Len(r)]
         IN  IF m[Len(m)].byte = last.byte
             THEN [m EXCEPT ![Len(m)].count = @ + last.count]
             ELSE Append(m, last)

\* text is the payloads of the packets sent, in order.
IsConcatOfSent(text) ==
    /\ text = Merge(SentRuns(Len(fed)))
    /\ text_len(text) = 4096 * (Len(fed) - 1) + Len(Sent(Len(fed)).payload)

\* How many of the packets read are fragments of the response.
Assembled == Cardinality({ i \in 1..packets_received : Expected(i) })

ProtocolErrorReturned ==
    /\ pc = "idle"
    /\ last_op = "execute_command"
    /\ IsErr(last_result)
    /\ last_result.val.kind = "Protocol"

\* C11 as stated: when the packets are all RESPONSE_VALUE packets with the
\* expected id, any number of payloads of exactly 4096 bytes followed by one
\* shorter payload, read_command_response reads each of them (after a packet of
\* 4096 bytes another read follows) and returns the concatenation of the
\* payloads in arrival order after as many reads as there are packets.
C11_ReassemblyAnyCount ==
    (/\ Len(fed) > 0
     /\ AllRead
     /\ \A i \in 1..Len(fed) : Expected(i)
     /\ \A i \in 1..(Len(fed) - 1) : FullAt(i)) =>
        /\ FullAt(Len(fed)) => pc = "read_command_response"
        /\ Len(Sent(Len(fed)).payload) < 4096 =>
              /\ pc = "idle"
              /\ last_op = "execute_command"
              /\ IsOk(last_result)
              /\ IsConcatOfSent(last_result.val)
              /\ packets_received = Len(fed)

\* C11 amended: the same for zero to 100 payloads of exactly 4096 bytes followed
\* by one shorter payload: the concatenation is returned after as many reads as
\* there are packets (a 101st payload of 4096 bytes ends the call with an error).
C11_ReassemblyUpTo100Full ==
    (/\ Len(fed) > 0
     /\ AllRead
     /\ \A i \in 1..Len(fed) : Expected(i)
     /\ \A i \in 1..(Len(fed) - 1) : FullAt(i)) =>
        /\ (FullAt(Len(fed)) /\ Len(fed) <= 100) => pc = "read_command_response"
        /\ (Len(Sent(Len(fed)).payload) < 4096 /\ Len(fed) - 1 <= 100) =>
              /\ pc = "idle"
              /\ last_op = "execute_command"
              /\ IsOk(last_result)
              /\ IsConcatOfSent(last_result.val)
              /\ packets_received = Len(fed)

\* C11 witness: payloads of 4096, 4096 and 120 bytes, each of other bytes, have
\* come back as one text of 8312 bytes after 3 reads.
C11_Witness ==
    /\ fed = << 1, 2, 3 >>
    /\ pc = "idle"
    /\ packets_received = 3
    /\ IsOk(last_result)
    /\ text_len(last_result.val) = 8312
    /\ last_result.val = << [byte |-> 65, count |-> 4096], [byte |-> 66, count |-> 4096],
                            [byte |-> 67, count |-> 120] >>

\* C12 as stated: a RESPONSE_VALUE packet with the expected id ends reassembly
\* if and only if its payload on the wire (size - 10) is shorter than 4096
\* bytes, whatever the bytes are (before the limit of 100 packets applies).
C12_EndsIffWireShort ==
    (/\ auth = NoAuth
     /\ IsOk(last_read.result)
     /\ last_read.result.val.request_id = op_request_id
     /\ last_read.result.val.packet_type = 0
     /\ packets_received <= 100) =>
        (pc # "read_command_response" <=> last_read.size - 10 < 4096)

\* A step of read_command_response that reads a packet of another request.
StaleRead ==
    /\ pc = "read_command_response"
    /\ packets_received' = packets_received + 1
    /\ IsOk(last_read'.result)
    /\ last_read'.result.val.request_id # op_request_id

\* C13: a packet whose request id differs from the expected one is discarded
\* whatever its type and payload: the call goes on reading, nothing is added to
\* the accumulated text, nothing is returned.
C13_StaleDiscarded ==
    [][StaleRead =>
          /\ pc' = "read_command_response"
          /\ full_response' = full_response
          /\ last_op' = last_op
          /\ last_result' = last_result]_vars

\* C13 witness: an EXEC-typed packet with id 1 and an empty payload arrived
\* between a fragment of 4096 and one of 120 bytes; the response is the two.
C13_Witness ==
    /\ fed = << 1, 10, 3 >>
    /\ pc = "idle"
    /\ packets_received = 3
    /\ IsOk(last_result)
    /\ text_len(last_result.val) = 4216

\* C14: a packet with the expected request id and a type other than
\* RESPONSE_VALUE makes execute_command return a protocol error, fragments
\* accumulated before it or not; the accumulated text is not returned.
C14_WrongTypeFails ==
    (/\ auth = NoAuth
     /\ IsOk(last_read.result)
     /\ last_read.result.val.request_id = op_request_id
     /\ last_read.result.val.packet_type # 0) =>
        ProtocolErrorReturned

\* C14 witness: after a fragment of 4096 bytes a packet with the expected id and
\* type 2 ended the call with a protocol error.
C14_Witness ==
    /\ fed = << 1, 11 >>
    /\ packets_received = 2
    /\ text_len(full_response) = 4096
    /\ ProtocolErrorReturned

\* C15: when the server sends only RESPONSE_VALUE packets with the expected id
\* and payloads of 4096 bytes, read_command_response goes on reading up to the
\* 101st packet and fails with a protocol error after exactly 101 reads.
C15_FailsAfter101Reads ==
    (\A i \in 1..Len(fed) : Expected(i) /\ FullAt(i)) =>
        /\ Len(fed) <= 101
        /\ (AllRead /\ Len(fed) < 101) => pc = "read_command_response"
        /\ (AllRead /\ Len(fed) = 101) => (ProtocolErrorReturned /\ packets_received = 101)

\* C15 witness: 101 packets of 4096 bytes were read and the call failed.
C15_Witness ==
    /\ Len(fed) = 101
    /\ \A i \in 1..Len(fed) : Expected(i) /\ FullAt(i)
    /\ packets_received = 101
    /\ ProtocolErrorReturned

\* C16 as stated: once 100 packets have been read for a response that is not
\* complete the call aborts, and a successful call returns the concatenation of
\* at most 100 packets.
C16_AtMost100Packets ==
    /\ pc = "read_command_response" => packets_received < 100
    /\ (pc = "idle" /\ last_op = "execute_command" /\ IsOk(last_result)) => Assembled <= 100

\* C16 amended: a response is never assembled from more than 101 packets: a
\* call that is still reading has accumulated at most 100, a fragment of 4096
\* bytes read as the 101st packet or later (packets of other requests count)
\* aborts the call with a protocol error, and a successful call returns the
\* concatenation of at most 101 packets.
C16_AtMost101Packets ==
    /\ pc = "read_command_response" => Assembled <= 100
    /\ (pc = "idle" /\ last_op = "execute_command" /\ IsOk(last_result)) => Assembled <= 101
    /\ (/\ packets_received > 100
        /\ Expected(packets_received)
        /\ FullAt(packets_received)) => ProtocolErrorReturned

\* C16 witness: a call has returned the concatenation of 101 packets, 100 of
\* 4096 bytes and one of 120.
C16_Witness ==
    /\ pc = "idle"
    /\ IsOk(last_result)
    /\ Assembled = 101
    /\ text_len(last_result.val) = 100 * 4096 + 120

(***************************************************************************)
(* Claims about the callers and the life of a connection, checked under    *)
(* Spec.                                                                   *)
(***************************************************************************)
\* The caller is at a call of RconClient::connect.
AtConnect == caller_pc \in { "connect_with_retry", "reconnect", "auto_reconnect" }

\* The last packet read ended the reassembly of the response.
ResponseComplete ==
    /\ IsOk(last_read.result)
    /\ last_read.result.val.request_id = op_request_id
    /\ last_read.result.val.packet_type = 0
    /\ Len(last_read.result.val.payload) < 4096

C17_Returned ==
    /\ pc = "panicked" => AtConnect
    /\ (last_op = "execute_command" /\ IsOk(last_result)) =>
          (ResponseComplete /\ last_result.val = full_response)

C17_Step ==
    /\ calls' = calls + 1 =>
          /\ conn_count' = conn_count
          /\ \A c \in Conns : c # client.stream => written'[c] = written[c]
          /\ Len(written'[client.stream]) <= Len(written[client.stream]) + 1
          /\ written'[client.stream] = written[client.stream] =>
                (pc' = "idle" /\ last_op' = "execute_command" /\ IsErr(last_result'))
    /\ pc = "read_command_response" =>
          /\ conn_count' = conn_count
          /\ written' = written
          /\ (last_read' # last_read /\ ~IsOk(last_read'.result)) =>
                (pc' = "idle" /\ last_op' = "execute_command" /\ last_result' = last_read'.result)

\* C17 as stated: a call of execute_command writes at most one frame and opens
\* no connection; every failure of encoding, writing, reading or reassembly
\* ends the call at once and is returned to the caller as an error (the call
\* never aborts); the call returns Ok only with a completely reassembled
\* response.
C17_OneFrameErrorsReturned == [](C17_Returned) /\ [][C17_Step]_vars

\* C18 as stated: once an execute_command (or ping) on a connection has failed
\* with a network error, no command is written to that connection and no
\* response is read from it any more, by any of the callers.
C18_FaultedNeverUsed ==
    pc = "read_command_response" => client.stream \notin faulted

\* A successful reconnect has just returned.
AfterReconnect == last_op = "connect" /\ IsOk(last_result) /\ discarded # { }

C19_Fresh ==
    /\ AfterReconnect =>
          /\ client = last_result.val
          /\ client.stream = conn_count
          /\ client.stream \notin discarded
          /\ \A d \in discarded : ~open[d]
          /\ client.next_request_id = 2
          /\ client.config = config
          /\ authed[client.stream]
          /\ IsOk(auth.result)
          /\ auth.rid = 1
          /\ written[client.stream] = << to_bytes(auth_packet(1, config.password)).val >>
    /\ (discarded # { } /\ client.stream \notin discarded /\ Len(written[client.stream]) >= 2) =>
          /\ authed[client.stream]
          /\ FrameType(written[client.stream][1]) = AUTH
          /\ \A k \in 2..Len(written[client.stream]) :
                /\ FrameType(written[client.stream][k]) = EXECCOMMAND
                /\ read_i32(written[client.stream][k], 5) >= 2

\* C19: after a successful reconnect the client is a new one: a new socket (the
\* old one is dropped), the request-id counter at 2 after an authentication
\* with id 1 that succeeded on the new socket before any command, the first
\* command with id 2 whatever the old counter was, and the configuration of
\* before.
C19_NoStateCarriedOver ==
    [](C19_Fresh) /\ [][(AfterReconnect /\ calls' = calls + 1) => op_request_id' = 2]_vars

\* C19 witness: a command with id 2 failed on connection 1 (its counter is 3),
\* the reconnect succeeded and the command is retried with id 2 on connection 2.
C19_Witness ==
    /\ caller_pc = "retry"
    /\ pc = "read_command_response"
    /\ 1 \in faulted
    /\ Len(written[1]) = 2
    /\ client.stream = 2
    /\ op_request_id = 2
    /\ Len(written[2]) = 2

\* C20 as stated: after a reconnect has returned, successfully or not, no
\* command is written to, and no response read from, the connection the caller
\* held before the call.
C20_OldConnectionDiscarded ==
    pc = "read_command_response" => client.stream \notin discarded

(***************************************************************************)
(* Claims about connect_with_retry, checked under Spec.                    *)
(***************************************************************************)
\* connect_with_retry is running: at a call of connect or in the delay.
InRetryLoop == caller_pc \in { "connect_with_retry", "retry_delay" }

C21_Bounded ==
    /\ attempt \in 1..3
    /\ InRetryLoop => (client = NoClient /\ conn_count <= attempt)
    /\ (caller_pc = "connect_with_retry" /\ pc = "idle") => conn_count < attempt
    /\ caller_pc = "retry_delay" =>
          (attempt < 3 /\ pc = "idle" /\ last_op = "connect" /\ IsErr(last_result))
    /\ (caller_pc = "exited" /\ client = NoClient) =>
          (attempt = 3 /\ last_op = "connect" /\ IsErr(last_result))

C21_Step ==
    /\ attempt' # attempt =>
          (caller_pc = "retry_delay" /\ attempt' = attempt + 1 /\ caller_pc' = "connect_with_retry")
    /\ caller_pc = "retry_delay" => (caller_pc' = "connect_with_retry" /\ conn_count' = conn_count)
    /\ ~InRetryLoop => (caller_pc' \notin { "connect_with_retry", "retry_delay" } /\ attempt' = attempt)
    /\ (caller_pc = "connect_with_retry" /\ caller_pc' # "connect_with_retry") =>
          /\ last_op' = "connect"
          /\ IsOk(last_result') =>
                /\ caller_pc' = entered(mode)
                /\ client' = last_result'.val
                /\ client'.stream = conn_count'
                /\ authed'[client'.stream]
          /\ ~IsOk(last_result') =>
                /\ IsErr(last_result')
                /\ client' = NoClient
                /\ caller_pc' = IF attempt < 3 THEN "retry_delay" ELSE "exited"
                /\ IsErr(last_read'.result) => last_result' = last_read'.result

NextAllocation == id_allocs > 0 /\ id_allocs' = id_allocs + 1

FirstAllocation == id_allocs = 0 /\ id_allocs' = 1

\* C22 as stated: the first id is the initial counter (1 on a new connection,
\* then 2), each allocated id is the previous id plus 1, and the only step that
\* does not increase is the wrap, from -2 back to 1 in the place of -1.
C22_PlusOneButOneWrap ==
    [][/\ FirstAllocation => op_request_id' = client.next_request_id
       /\ NextAllocation =>
             \/ (op_request_id < 2147483647 /\ op_request_id' = op_request_id + 1)
             \/ (op_request_id = -2 /\ op_request_id' = 1)]_vars

\* C22 amended: ids start at the initial counter (1 on a new connection, then
\* 2) and each allocated id is the previous id plus 1 in 32-bit wrapping
\* arithmetic; two steps of the sequence do not increase: after 2147483647
\* comes -2147483648, and after -2 comes 1 in the place of -1.
C22_PlusOneWrapping ==
    [][/\ FirstAllocation =>
             /\ op_request_id' = client.next_request_id
             /\ client.next_request_id = 1 => client'.next_request_id = 2
       /\ NextAllocation =>
             /\ op_request_id = 2147483647 => op_request_id' = -2147483647 - 1
             /\ op_request_id = -2 => op_request_id' = 1
             /\ op_request_id \notin { 2147483647, -2 } => op_request_id' = op_request_id + 1
             /\ op_request_id' <= op_request_id => op_request_id \in { 2147483647, -2 }
       /\ id_allocs' = id_allocs + 1 => client'.next_request_id \notin { -1, 0 }]_vars

\* C22 witness: -2 has been allocated and the counter has gone back to 1.
C22_Witness ==
    /\ id_allocs > 1
    /\ op_request_id = -2
    /\ client.next_request_id = 1

(***************************************************************************)
(* Claims about the exchanges on a connection, checked under Spec.         *)
(***************************************************************************)
\* execute_command writes its frame at this step.
CommandWritten ==
    /\ calls' = calls + 1
    /\ written'[client.stream] # written[client.stream]

\* The execute_command that returned last had written its frame and read from
\* the connection.
EarlierCommandRead == last_op = "execute_command" /\ last_read # NoRead

\* C23 as stated: a frame is written on a connection only when the response to
\* every earlier request written on it has been read up to its terminating
\* short fragment, also after an execute_command that ended with an error.
C23_OneOutstanding ==
    [][(CommandWritten /\ EarlierCommandRead) => (IsOk(last_result) /\ ResponseComplete)]_vars

(***************************************************************************)
(* Claims about the error outcomes of the codec, checked under CodecSpec.  *)
(***************************************************************************)
\* The kind of the error each failure of the protocol core is reported with:
\* a request payload of 1447 bytes, an empty buffer, a 12-byte buffer with size
\* field 11, and the size prefix 7 met by read_packet.
PayloadTooLargeKind == to_bytes(RconPacket(1, EXECCOMMAND, Fill(MAX_REQUEST_PAYLOAD_SIZE + 1))).val.kind

TruncatedKind == from_bytes_in(<< >>, FALSE).val.kind

LengthMismatchKind ==
    from_bytes_in(write_i32(11) \o write_i32(1) \o write_i32(RESPONSE_VALUE), FALSE).val.kind

PrefixRejectedKind == read_packet_in(write_i32(7), FALSE, FALSE).result.val.kind

\* C24 as stated: an oversized request payload, a buffer shorter than 12 bytes,
\* a size field that does not match the buffer and a size prefix rejected by
\* read_packet are reported with four different error kinds.
C24_DistinctKinds ==
    /\ (codec_pc = "encoded" /\ IsErr(frame)) =>
          frame.val.kind \notin { TruncatedKind, LengthMismatchKind, PrefixRejectedKind }
    /\ (codec_pc = "decoded" /\ IsErr(decoded) /\ Len(buf) < 12) =>
          decoded.val.kind \notin { PayloadTooLargeKind, LengthMismatchKind, PrefixRejectedKind }
    /\ (codec_pc = "decoded" /\ IsErr(decoded) /\ Len(buf) >= 12) =>
          decoded.val.kind \notin { PayloadTooLargeKind, TruncatedKind, PrefixRejectedKind }

(***************************************************************************)
(* Claims about the progress of reassembly, checked under ReassemblySpec.  *)
(***************************************************************************)
\* What the server has sent is a complete logical response cut into packets
\* of at most 4096 payload bytes: RESPONSE_VALUE packets with the expected id,
\* every one but the last with 4096 bytes.
CompleteResponseSent ==
    /\ Len(fed) > 0
    /\ \A i \in 1..Len(fed) : Expected(i)
    /\ \A i \in 1..(Len(fed) - 1) : FullAt(i)

ResponseReturned ==
    /\ pc = "idle"
    /\ last_op = "execute_command"
    /\ IsOk(last_result)
    /\ IsConcatOfSent(last_result.val)

\* C25 as stated: when the server has sent a complete logical response in
\* packets of at most 4096 payload bytes with the request's id and type
\* RESPONSE_VALUE and sends nothing more, execute_command returns that
\* response, whatever its length, an exact multiple of 4096 included: once
\* the client has read all that was sent, the call has returned it (a call
\* that is still reading then waits for bytes that never come).
C25_ExecuteReturns == (CompleteResponseSent /\ AllRead) => ResponseReturned

\* C26 as stated: whatever well-formed packets the server sends, packets of
\* other requests without end included, read_command_response ends with a
\* result or an error after at most 101 reads.
C26_AtMost101Reads == packets_received >= 101 => pc # "read_command_response"

\* The i-th packet the server has sent belongs to another request.
Stale(i) == Sent(i).request_id # op_request_id

\* C27 as stated: only packets with the expected id count toward the limit: a
\* response of at most 100 fragments is reassembled whatever number of packets
\* of other requests comes with it, so a call that has been sent nothing but
\* such packets and at most 99 fragments of 4096 bytes has not failed.
C27_StaleNotCounted ==
    (/\ \A i \in 1..Len(fed) : Stale(i) \/ (Expected(i) /\ FullAt(i))
     /\ Cardinality({ i \in 1..Len(fed) : Expected(i) }) <= 99) =>
        ~(pc = "idle" /\ IsErr(last_result))

(***************************************************************************)
(* Claims about the effects of a failed command, checked under Spec.       *)
(***************************************************************************)
TooLarge(r) == IsErr(r) /\ r.val = [kind |-> "InvalidPacket", msg |-> "Payload too large"]

\* execute_command is called at this step and fails because its command is
\* longer than 1446 bytes.
OversizedCommandFails ==
    /\ calls' = calls + 1
    /\ last_op' = "execute_command"
    /\ TooLarge(last_result')

\* C28 as stated: an execute_command that fails because the command is longer
\* than 1446 bytes leaves the connection state unchanged: no byte is written
\* and the request-id counter has the value it had before the call.
C28_StateUnchanged ==
    [][OversizedCommandFails => (written' = written /\ client' = client)]_vars

\* C28 amended: such a call writes no byte and opens or closes no connection,
\* but it has allocated a request id: the counter is one allocation further
\* than before the call and the id is not used for any frame.
C28_IdConsumedNothingWritten ==
    [][OversizedCommandFails =>
          /\ written' = written
          /\ conn_count' = conn_count
          /\ open' = open
          /\ inbound' = inbound
          /\ pc' = "idle"
          /\ client'.stream = client.stream
          /\ client'.config = client.config
          /\ op_request_id' = client.next_request_id
          /\ client'.next_request_id = client.next_request_id + 1]_vars

\* C28 witness: the first command on a connection was too long; only the AUTH
\* frame has been written and the counter has gone from 2 to 3.
C28_Witness ==
    /\ last_op = "execute_command"
    /\ TooLarge(last_result)
    /\ calls = 1
    /\ op_request_id = 2
    /\ client.next_request_id = 3
    /\ Len(written[client.stream]) = 1

(***************************************************************************)
(* Claims about the byte stream of a connection, checked under Spec.  The  *)
(* frames of the stream are the chunks the server has sent.                *)
(***************************************************************************)
\* The bytes inb are at most n whole chunks of the server, one after another.
RECURSIVE IsFrames(_, _)
IsFrames(inb, n) ==
    \/ inb = << >>
    \/ /\ n > 0
       /\ \E ch \in ServerChunks :
             /\ Len(ch) <= Len(inb)
             /\ SubSeq(inb, 1, Len(ch)) = ch
             /\ IsFrames(SubSeq(inb, Len(ch) + 1, Len(inb)), n - 1)

\* The unread bytes of connection c start at a frame boundary.
AtFrameBoundary(c) == IsFrames(inbound[c], MaxServerChunks)

\* C29 as stated: every call of read_packet starts reading at a frame boundary
\* of the server's byte stream, also when an earlier call on the connection
\* returned an error and the caller issues another command on the client.
C29_FrameAligned ==
    /\ pc = "authenticate" => AtFrameBoundary(building.stream)
    /\ pc = "read_command_response" => AtFrameBoundary(client.stream)

\* read_command_response adds text to the response at this step.
TextAdded == pc = "read_command_response" /\ full_response' # full_response

\* C30 as stated: the string execute_command returns consists only of payloads
\* of packets whose request id is the id allocated for the call: text is added
\* to the response only from a whole frame of the server that carries this id;
\* bytes left over from the answer to an earlier command are never added.
C30_ResponseIsolated ==
    [][TextAdded =>
          /\ AtFrameBoundary(client.stream)
          /\ \E ch \in GoodFrames :
                /\ Len(ch) <= Len(inbound[client.stream])
                /\ SubSeq(inbound[client.stream], 1, Len(ch)) = ch
                /\ read_i32(ch, 5) = op_request_id
                /\ full_response' = push_str(full_response, from_bytes_in(ch, FALSE).val.payload)]_vars

(***************************************************************************)
(* Claims about the interactive mode, checked under Spec.                  *)
(***************************************************************************)
\* The frame of the line read last, with request id `id`.
LineFrame(id) == to_bytes(command_packet(id, input)).val

LostConnection(r) == IsErr(r) /\ r.val.kind \in { "Network", "Disconnected" }

\* The first attempt of a line: sent from the prompt, it fails at once or goes
\* on reading; only a network or disconnected error leads to the reconnect.
C31_FirstAttempt ==
    /\ (caller_pc = "prompt" /\ caller_pc' = "command") =>
          /\ calls' = calls + 1
          /\ written' = [written EXCEPT ![client.stream] = Append(@, to_bytes(command_packet(client.next_request_id, input')).val)]
    /\ caller_pc = "command" =>
          /\ calls' = calls
          /\ written' = written
          /\ input' = input
          /\ conn_count' = conn_count
          /\ caller_pc' \in { "command", "prompt", "auto_reconnect" }
    /\ (caller_pc' = "auto_reconnect" /\ caller_pc # "auto_reconnect") =>
          /\ caller_pc \in { "prompt", "command" }
          /\ last_op' = "execute_command"
          /\ LostConnection(last_result')
    /\ (caller_pc \in { "prompt", "command" } /\ last_op' = "execute_command"
            /\ last_result' # last_result /\ ~LostConnection(last_result')) =>
          caller_pc' = "prompt"

\* The reconnect after a lost connection sends nothing; the retry follows only
\* its success, on the new connection, which has seen nothing but AUTH.
C31_Reconnect ==
    /\ caller_pc = "auto_reconnect" =>
          /\ calls' = calls
          /\ input' = input
          /\ caller_pc' \in { "auto_reconnect", "retry", "prompt" }
          /\ caller_pc' = "prompt" => (last_op' = "connect" /\ IsErr(last_result') /\ client' = client)
    /\ (caller_pc' = "retry" /\ caller_pc # "retry") =>
          /\ caller_pc = "auto_reconnect"
          /\ last_op' = "connect"
          /\ IsOk(last_result')
          /\ client' = last_result'.val
          /\ client'.stream = conn_count'
          /\ client'.stream # client.stream
          /\ client'.next_request_id = 2
          /\ authed'[client'.stream]
          /\ Len(written'[client'.stream]) = 1
          /\ FrameType(written'[client'.stream][1]) = AUTH

\* The second attempt: one call, which writes the frame of the same line on the
\* new connection unless the write fails; whatever it returns, the caller is
\* back at the prompt, without a reconnect or another send.
C31_SecondAttempt ==
    caller_pc = "retry" =>
        /\ input' = input
        /\ conn_count' = conn_count
        /\ client'.stream = client.stream
        /\ caller_pc' \in { "retry", "prompt" }
        /\ pc = "idle" =>
              /\ calls' = calls + 1
              /\ \/ (written' = written /\ caller_pc' = "prompt" /\ IsErr(last_result'))
                 \/ /\ written' = [written EXCEPT ![client.stream] = Append(@, LineFrame(client.next_request_id))]
                    /\ pc' = "read_command_response"
        /\ pc = "read_command_response" =>
              /\ calls' = calls
              /\ written' = written
              /\ pc' = "idle" => caller_pc' = "prompt"

\* C31: in interactive mode a command line is written at most twice: once on
\* the current connection and, only when that attempt failed with a network or
\* disconnected error and the reconnect that follows succeeded, in exactly one
\* more call on the new, freshly authenticated connection; an error of another
\* kind or a failure of the second attempt causes no reconnect and no send.
C31_LineSentAtMostTwice ==
    [][C31_FirstAttempt /\ C31_Reconnect /\ C31_SecondAttempt]_vars

\* C31 witness: the line was written on connection 1, the connection was lost,
\* the reconnect succeeded, the same frame was written on connection 2 and the
\* second attempt has returned.
C31_Witness ==
    /\ caller_pc = "prompt"
    /\ calls = 2
    /\ last_op = "execute_command"
    /\ 1 \in faulted
    /\ client.stream = 2
    /\ Len(written[1]) = 2
    /\ Len(written[2]) = 2
    /\ written[1][2] = LineFrame(2)
    /\ written[2][2] = LineFrame(2)

====
